---- MODULE Spec2Model ----
(***************************************************************************)
(* Model of Ard's eagle presence density component                         *)
(* (src/ard/eco/eagle_density.py) and of the component log capture         *)
(* utilities (src/ard/utils/logging.py).                                   *)
(*                                                                         *)
(* Real numbers are modelled by integers.  The presence-density maps fed   *)
(* to setup() are samples of a few fields a*x + b*y + c*x*y on a 4 x 4     *)
(* grid; an interpolating (s = 0) bicubic RectBivariateSpline reproduces   *)
(* such a field exactly, so the fitted interpolant is the unique field of  *)
(* the family that passes through the samples, and its partial             *)
(* derivatives are the analytic ones.  Query coordinates stay inside the   *)
(* grid's domain.                                                          *)
(***************************************************************************)
EXTENDS Integers, Sequences, FiniteSets, TLC

\* ------------------------------------------------------------------ bounds
MaxN == 2          \* largest configured turbine count N_turbines

\* ----------------------------------------------------------- small helpers
Null == "None"

SeqOf(S, n) == [1..n -> S]

Min(a, b) == IF a <= b THEN a ELSE b

Zeros(n) == [i \in 1..n |-> 0]

ZeroMatrix(n) == [i \in 1..n |-> [j \in 1..n |-> 0]]

\* ===================================================== eagle_density.py ==
VARIABLES
    pres,                    \* modeling_options["ssrs"]["presence_density_map"]
    N_turbines,              \* modeling_options["layout"]["N_turbines"]
    eagle_density_function,  \* self.eagle_density_function, Null until fitted
    setup_state,             \* "new", "ready" (setup returned), "failed" (setup raised)
    outputs,                 \* the declared output eagle_normalized_density
    partials,                \* the two declared Jacobian blocks
    last,                    \* the latest call: which method, its inputs
    raised,                  \* the exception the latest call raised, or Null
    memo                     \* results first seen for the probe batch

evalVars == <<pres, N_turbines, eagle_density_function, setup_state,
              outputs, partials, last, raised, memo>>

\* =============================================================== logging.py
VARIABLES
    fs_dirs,          \* the directories that exist, as absolute paths
    fs_files,         \* the files that exist: path -> what was written to it
    component,        \* the component a direct call of name_create_log is given
    iter_arg,         \* the iter argument of that call
    iter_local,       \* the local variable iter after line 78
    log_paths,        \* what that call returned or raised
    self,             \* per rank: the component whose wrapped method runs
    pc,               \* per rank: where the wrapper stands
    sys_stdout,       \* per rank: what sys.stdout refers to
    sys_stderr,       \* per rank: what sys.stderr refers to
    old_stdout,       \* per rank: the target redirect_stdout saved
    old_stderr,       \* per rank: the target redirect_stderr saved
    path_log,         \* per rank: the pair name_create_log returned
    stdout_file,      \* per rank: the file object opened on the stdout log
    stderr_file,      \* per rank: the file object opened on the stderr log
    func_result,      \* per rank: how compute_func ended
    outcome,          \* per rank: how the wrapper ended
    printed,          \* per rank: what compute_func printed in this call
    before            \* per rank: sys.stdout and sys.stderr when the wrapper was entered

pathVars == <<component, iter_arg, iter_local, log_paths>>

fsVars == <<fs_dirs, fs_files>>

wrapVars == <<self, pc, sys_stdout, sys_stderr, old_stdout, old_stderr,
              path_log, stdout_file, stderr_file, func_result, outcome, printed,
              before>>

logVars == <<fsVars, pathVars, wrapVars>>

vars == <<evalVars, logVars>>

\* The spline degree RectBivariateSpline uses by default (kx = ky = 3).
SplineDegree == 3

\* The family of fields the density maps are sampled from.
Fields == {[a |-> 1, b |-> 1, c |-> 0], [a |-> 0, b |-> 1, c |-> 0], [a |-> 1, b |-> 1, c |-> 1]}

Poly(f, x, y) == f.a * x + f.b * y + f.c * x * y

GoodAxis == <<0, 1, 2, 3>>

Sample(f, xs, ys) == [i \in 1..Len(xs) |-> [j \in 1..Len(ys) |-> Poly(f, xs[i], ys[j])]]

\* np.all(np.diff(axis) > 0.0)
StrictlyIncreasing(axis) == \A i \in 1..(Len(axis) - 1) : axis[i + 1] - axis[i] > 0

\* z.shape of a rectangular 2-D array
Shape(z) == <<Len(z), IF Len(z) = 0 THEN 0 ELSE Len(z[1])>>

\* The argument checks of RectBivariateSpline(x, y, z): strictly increasing
\* axes, z of shape len(x) by len(y), more points per axis than the degree.
SplineArgsOK(x, y, z) ==
    /\ StrictlyIncreasing(x)
    /\ StrictlyIncreasing(y)
    /\ Len(x) = Shape(z)[1]
    /\ Len(y) = Shape(z)[2]
    /\ Len(x) > SplineDegree
    /\ Len(y) > SplineDegree

\* The fitted interpolant: the member of the family through all samples.
RectBivariateSpline(x, y, z) ==
    CHOOSE f \in Fields : \A i \in 1..Len(x) : \A j \in 1..Len(y) : Poly(f, x[i], y[j]) = z[i][j]

\* spline(x, y) and spline.ev(x, y, dx, dy) at one point.
Evaluate(f, x, y, dx, dy) ==
    IF dx = 0 /\ dy = 0 THEN Poly(f, x, y)
    ELSE IF dx = 1 /\ dy = 0 THEN f.a + f.c * y
    ELSE f.b + f.c * x

\* What a list of k spline results, each a 1 x 1 array, does when assigned to
\* a declared array of n entries: numpy takes k = n entry by entry, broadcasts
\* k = 1, and refuses every other k.
Assignable(k, n) == k = n \/ k = 1

AssignTo(n, vals) ==
    [i \in 1..n |-> IF Len(vals) = n THEN vals[i] ELSE vals[1]]

\* Every x paired with the first y instead of its own.
ZipEvaluateMut(f, x, y) ==
    [i \in 1..Min(Len(x), Len(y)) |-> Evaluate(f, x[i], y[1], 0, 0)]

\* [spline(xt, yt) for xt, yt in zip(x_turbines, y_turbines)]
ZipEvaluate(f, x, y) ==
    [i \in 1..Min(Len(x), Len(y)) |-> Evaluate(f, x[i], y[i], 0, 0)]

\* np.broadcast_arrays(x, y) of two 1-D arrays: possible when the lengths
\* agree or one of them is 1.
Broadcastable(x, y) == Len(x) = Len(y) \/ Len(x) = 1 \/ Len(y) = 1

BroadcastLen(x, y) == IF Len(x) = 1 THEN Len(y) ELSE Len(x)

At(v, i) == IF Len(v) = 1 THEN v[1] ELSE v[i]

\* spline.ev(x_turbines, y_turbines, dx=dx, dy=dy)
Ev(f, x, y, dx, dy) ==
    [i \in 1..BroadcastLen(x, y) |-> Evaluate(f, At(x, i), At(y, i), dx, dy)]

\* A dense block: every row repeats the derivative vector.
DiagMut(v) == [i \in 1..Len(v) |-> [j \in 1..Len(v) |-> v[j]]]

\* np.diag of a 1-D array
Diag(v) == [i \in 1..Len(v) |-> [j \in 1..Len(v) |-> IF i = j THEN v[i] ELSE 0]]

\* The batch whose re-evaluation is followed across calls.
ProbeBatch(n) == [x |-> [i \in 1..n |-> 1 + (i % 2)],
                  y |-> [i \in 1..n |-> 1 + ((i + 1) % 2)]]

IsProbe(x, y) == x = ProbeBatch(N_turbines).x /\ y = ProbeBatch(N_turbines).y

\* Not declared yet / not fitted yet.
NoArray == <<>>

NoPartials == [dx |-> <<>>, dy |-> <<>>]

NoSpline == <<>>

NoMemo == [density |-> NoArray, jac |-> NoPartials]

\* The fitted spline object held by self.eagle_density_function.
Spline == eagle_density_function[1]

\* A setup that declares its inputs and outputs before it fits the spline.
setupMut ==
    /\ setup_state = "new"
    /\ outputs' = Zeros(N_turbines)
    /\ partials' = [dx |-> ZeroMatrix(N_turbines), dy |-> ZeroMatrix(N_turbines)]
    /\ IF SplineArgsOK(pres.x, pres.y, pres.z)
       THEN /\ eagle_density_function' = <<RectBivariateSpline(pres.x, pres.y, pres.z)>>
            /\ setup_state' = "ready"
            /\ raised' = Null
       ELSE /\ setup_state' = "failed"
            /\ raised' = "ValueError"
            /\ UNCHANGED eagle_density_function
    /\ last' = [op |-> "setup", x |-> <<>>, y |-> <<>>]
    /\ UNCHANGED <<pres, N_turbines, memo>>
    /\ UNCHANGED logVars

\* setup(): read the options, fit the spline, declare inputs and outputs;
\* setup_partials() follows it in the framework's setup sequence.
setup ==
    /\ setup_state = "new"
    /\ IF SplineArgsOK(pres.x, pres.y, pres.z)
       THEN /\ eagle_density_function' = <<RectBivariateSpline(pres.x, pres.y, pres.z)>>
            /\ outputs' = Zeros(N_turbines)
            /\ partials' = [dx |-> ZeroMatrix(N_turbines), dy |-> ZeroMatrix(N_turbines)]
            /\ setup_state' = "ready"
            /\ raised' = Null
       ELSE /\ setup_state' = "failed"
            /\ raised' = "ValueError"
            /\ UNCHANGED <<eagle_density_function, outputs, partials>>
    /\ last' = [op |-> "setup", x |-> <<>>, y |-> <<>>]
    /\ UNCHANGED <<pres, N_turbines, memo>>
    /\ UNCHANGED logVars

\* A compute that adds to the output array instead of overwriting it.
computeMut(x, y) ==
    /\ setup_state = "ready"
    /\ Len(x) = N_turbines /\ Len(y) = N_turbines
    /\ last' = [op |-> "compute", x |-> x, y |-> y]
    /\ UNCHANGED <<pres, N_turbines, eagle_density_function, setup_state, partials>>
    /\ UNCHANGED logVars
    /\ outputs' = [i \in 1..N_turbines |-> outputs[i] + ZipEvaluate(Spline, x, y)[i]]
    /\ raised' = Null
    /\ memo' = IF IsProbe(x, y) /\ memo.density = NoArray
               THEN [memo EXCEPT !.density = outputs']
               ELSE memo

\* compute(inputs, outputs)
compute(x, y) ==
    /\ setup_state # "new"
    /\ last' = [op |-> "compute", x |-> x, y |-> y]
    /\ UNCHANGED <<pres, N_turbines, eagle_density_function, setup_state, partials>>
    /\ UNCHANGED logVars
    /\ IF eagle_density_function = NoSpline
       THEN /\ raised' = "AttributeError"
            /\ UNCHANGED <<outputs, memo>>
       ELSE LET vals == ZipEvaluate(Spline, x, y) IN
            IF Assignable(Len(vals), N_turbines)
            THEN /\ outputs' = AssignTo(N_turbines, vals)
                 /\ raised' = Null
                 /\ memo' = IF IsProbe(x, y) /\ memo.density = NoArray
                            THEN [memo EXCEPT !.density = outputs']
                            ELSE memo
            ELSE /\ raised' = "ValueError"
                 /\ UNCHANGED <<outputs, memo>>

\* compute_partials(inputs, partials)
compute_partials(x, y) ==
    /\ setup_state # "new"
    /\ last' = [op |-> "compute_partials", x |-> x, y |-> y]
    /\ UNCHANGED <<pres, N_turbines, eagle_density_function, setup_state, outputs>>
    /\ UNCHANGED logVars
    /\ IF eagle_density_function = NoSpline
       THEN /\ raised' = "AttributeError"
            /\ UNCHANGED <<partials, memo>>
       ELSE IF Broadcastable(x, y) /\ BroadcastLen(x, y) = N_turbines
            THEN LET dfdx == Ev(Spline, x, y, 1, 0)
                     dfdy == Ev(Spline, x, y, 0, 1)
                 IN /\ partials' = [dx |-> Diag(dfdx), dy |-> Diag(dfdy)]
                    /\ raised' = Null
                    /\ memo' = IF IsProbe(x, y) /\ memo.jac = NoPartials
                               THEN [memo EXCEPT !.jac = partials']
                               ELSE memo
            ELSE /\ raised' = "ValueError"
                 /\ UNCHANGED <<partials, memo>>

\* ============================================================ logging.py ==
\* Text is a sequence of one-character strings, a path a sequence of
\* segments; an absolute path starts with the segment Root.
Root == <<"/">>

Cwd == <<Root, <<"w", "o", "r", "k">>>>

None == <<>>

Some(v) == <<v>>

DigitChar == <<"0", "1", "2", "3", "4", "5", "6", "7", "8", "9">>

RECURSIVE Decimal(_)
Decimal(n) == IF n < 10 THEN <<DigitChar[n + 1]>>
              ELSE Decimal(n \div 10) \o <<DigitChar[(n % 10) + 1]>>

\* A format that forgets the zero padding.
ZeroPaddedMut(n, width) == Decimal(n)

\* f"{n:0<width>d}" for n >= 0: zeros on the left up to the width.
ZeroPadded(n, width) ==
    LET d == Decimal(n) IN
    [i \in 1..(IF Len(d) >= width THEN 0 ELSE width - Len(d)) |-> "0"] \o d

\* str.split(sep) with a one-character separator.
RECURSIVE Split(_, _)
Split(text, sep) ==
    IF \E i \in 1..Len(text) : text[i] = sep
    THEN LET i == CHOOSE k \in 1..Len(text) :
                     text[k] = sep /\ \A m \in 1..(k - 1) : text[m] # sep
         IN <<SubSeq(text, 1, i - 1)>> \o Split(SubSeq(text, i + 1, Len(text)), sep)
    ELSE <<text>>

\* pathlib.Path(*segments): empty segments vanish.
PathOf(segments) == SelectSeq(segments, LAMBDA seg : seg # <<>>)

\* Path.parent
Parent(path) == SubSeq(path, 1, Len(path) - 1)

\* Path.absolute()
Absolute(path) == IF Len(path) > 0 /\ path[1] = Root THEN path ELSE Cwd \o path

\* text % word for a text with at most the one directive %s.
RECURSIVE PercentFormat(_, _)
PercentFormat(text, word) ==
    IF Len(text) >= 2 /\ text[1] = "%" /\ text[2] = "s"
    THEN word \o PercentFormat(SubSeq(text, 3, Len(text)), word)
    ELSE IF Len(text) = 0 THEN <<>>
    ELSE <<text[1]>> \o PercentFormat(Tail(text), word)

\* extract_iter(component)
extract_iter(c) ==
    IF ~c.has_problem_meta THEN None
    ELSE IF ~c.has_model_ref THEN None
    ELSE IF ~c.has_iter_count THEN None
    ELSE Some(c.iter_count)

\* A name_create_log that prefers the iter it is passed.
LocalIterMut(c, iter) == IF iter # None THEN iter ELSE extract_iter(c)

\* Line 78: the local iter is overwritten with extract_iter's result.
LocalIter(c, iter) == extract_iter(c)

\* Lines 75-80: logs_dir.
LogsDir(iter) ==
    <<<<"l", "o", "g", "s">>>>
    \o (IF iter # None
        THEN <<<<"i", "t", "e", "r", "_">> \o ZeroPadded(iter[1], 4)>>
        ELSE <<>>)

\* Lines 81-92: path_logfile_template.
LogfileTemplate(c, iter) ==
    PathOf(Parent(c.reports_dir)
           \o LogsDir(iter)
           \o Split(c.pathname, ".")
           \o <<<<"%", "s", "_", "r", "a", "n", "k">> \o ZeroPadded(c.rank, 3)
                \o <<".", "t", "x", "t">>>>)

\* Lines 93-94: Path(template.as_posix() % word).
LogfilePath(c, iter, word) ==
    LET template == LogfileTemplate(c, iter)
    IN [k \in 1..Len(template) |-> PercentFormat(template[k], word)]

StdoutWord == <<"s", "t", "d", "o", "u", "t">>

StderrWord == <<"s", "t", "d", "e", "r", "r">>

\* ------------------------------------------------------------ file system
IsPrefix(p, q) == Len(p) <= Len(q) /\ SubSeq(q, 1, Len(p)) = p

Ancestors(p) == {SubSeq(p, 1, k) : k \in 1..(Len(p) - 1)}

\* Path.mkdir(parents=True, exist_ok=...): the exception it raises, or "ok".
MkdirError(dirs, files, p, exist_ok) ==
    IF p \in DOMAIN files THEN "FileExistsError"
    ELSE IF p \in dirs THEN (IF exist_ok THEN "ok" ELSE "FileExistsError")
    ELSE IF \E a \in Ancestors(p) : a \in DOMAIN files THEN "NotADirectoryError"
    ELSE "ok"

MkdirDirs(dirs, p) == dirs \cup Ancestors(p) \cup {p}

\* An rmtree that unlinks the files right in p and overlooks those below.
RmtreeFilesMut(dirs, files, p) ==
    IF p \in dirs
    THEN [q \in {f \in DOMAIN files : Parent(f) # p} |-> files[q]]
    ELSE files

\* shutil.rmtree(p, ignore_errors=True): a directory goes with all it holds;
\* anything else is an error, which is ignored.
RmtreeDirs(dirs, p) == IF p \in dirs THEN {d \in dirs : ~IsPrefix(p, d)} ELSE dirs

RmtreeFiles(dirs, files, p) ==
    IF p \in dirs
    THEN [q \in {f \in DOMAIN files : ~IsPrefix(p, f)} |-> files[q]]
    ELSE files

Contents(dirs, files, p) ==
    {d \in dirs : IsPrefix(p, d) /\ d # p} \cup {f \in DOMAIN files : IsPrefix(p, f)}

\* Lines 96-101: make a clean log location.
CleanLogLocation(dirs, files, p) ==
    IF MkdirError(dirs, files, p, FALSE) = "ok"
    THEN [error |-> "ok", dirs |-> MkdirDirs(dirs, p), files |-> files]
    ELSE IF MkdirError(dirs, files, p, FALSE) # "FileExistsError"
    THEN [error |-> MkdirError(dirs, files, p, FALSE), dirs |-> dirs, files |-> files]
    ELSE LET d2 == RmtreeDirs(dirs, p)
             f2 == RmtreeFiles(dirs, files, p)
             err == MkdirError(d2, f2, p, TRUE)
         IN [error |-> err,
             dirs |-> IF err = "ok" THEN MkdirDirs(d2, p) ELSE d2,
             files |-> f2]

NoPaths == [status |-> "none", stdout |-> <<>>, stderr |-> <<>>]

\* name_create_log(component, iter), called directly.
name_create_log ==
    /\ log_paths.status = "none"
    /\ UNCHANGED <<component, iter_arg, wrapVars, evalVars>>
    /\ IF ~component.is_component
       THEN /\ log_paths' = [NoPaths EXCEPT !.status = "TypeError"]
            /\ UNCHANGED <<iter_local, fsVars>>
       ELSE /\ iter_local' = LocalIter(component, iter_arg)
            /\ IF ~component.has_problem_meta
               THEN /\ log_paths' = [NoPaths EXCEPT !.status = "AttributeError"]
                    /\ UNCHANGED fsVars
               ELSE LET out == LogfilePath(component, iter_local', StdoutWord)
                        err == LogfilePath(component, iter_local', StderrWord)
                        made == CleanLogLocation(fs_dirs, fs_files, Absolute(Parent(out)))
                    IN /\ fs_dirs' = made.dirs
                       /\ fs_files' = made.files
                       /\ log_paths' = IF made.error = "ok"
                                       THEN [status |-> "returned",
                                             stdout |-> Absolute(out),
                                             stderr |-> Absolute(err)]
                                       ELSE [NoPaths EXCEPT !.status = made.error]

\* ------------------------------------------------------- bounds, logging
MaxRank == 1       \* ranks are 0..MaxRank
MaxIter == 1       \* the model's iter_count runs over 0..MaxIter
MaxPrints == 1     \* compute_func prints at most this often to each stream

Ranks == 0..MaxRank

EmptyFiles == [q \in {} |-> <<>>]

NoComponent == [is_component |-> FALSE, has_problem_meta |-> FALSE, has_model_ref |-> FALSE,
                has_iter_count |-> FALSE, iter_count |-> 0, pathname |-> <<>>, rank |-> 0,
                reports_dir |-> <<>>]

NoFile == [path |-> <<>>, state |-> "none", attached |-> FALSE]

PathQuiet ==
    /\ component = NoComponent
    /\ iter_arg = None
    /\ iter_local = None
    /\ log_paths = NoPaths

WrapQuiet ==
    /\ self = [r \in Ranks |-> NoComponent]
    /\ pc = [r \in Ranks |-> "idle"]
    /\ sys_stdout = [r \in Ranks |-> "console"]
    /\ sys_stderr = [r \in Ranks |-> "console_err"]
    /\ old_stdout = [r \in Ranks |-> "unset"]
    /\ old_stderr = [r \in Ranks |-> "unset"]
    /\ path_log = [r \in Ranks |-> NoPaths]
    /\ stdout_file = [r \in Ranks |-> NoFile]
    /\ stderr_file = [r \in Ranks |-> NoFile]
    /\ func_result = [r \in Ranks |-> "none"]
    /\ outcome = [r \in Ranks |-> "none"]
    /\ printed = [r \in Ranks |-> [out |-> 0, err |-> 0]]
    /\ before = [r \in Ranks |-> [out |-> "console", err |-> "console_err"]]

LogQuiet == fs_dirs = {} /\ fs_files = EmptyFiles /\ PathQuiet /\ WrapQuiet

EvalQuiet ==
    /\ pres = [x |-> <<>>, y |-> <<>>, z |-> <<>>]
    /\ N_turbines = 1
    /\ eagle_density_function = NoSpline
    /\ setup_state = "new"
    /\ outputs = NoArray
    /\ partials = NoPartials
    /\ last = [op |-> "init", x |-> <<>>, y |-> <<>>]
    /\ raised = Null
    /\ memo = NoMemo

\* ------------------------------------------ name_create_log, called directly
Pathnames == {<<>>, <<"a", ".", "b">>, <<"a", "b">>, <<"b", ".", "a">>}

ReportsDirs == {<<Root, <<"r", "u", "n">>, <<"o", "u", "t">>, <<"r", "e", "p", "o", "r", "t", "s">>>>,
                <<<<"o", "u", "t">>, <<"r", "e", "p", "o", "r", "t", "s">>>>}

\* Iteration counts and rank numbers around the widths of the two formats.
IterCounts == 0..MaxIter \cup {9999, 10000}

RankNumbers == 0..MaxRank \cup {999, 1000}

\* Components whose model carries an iter_count, components that lack one of
\* the three things extract_iter looks for, and an object that is no component.
Components ==
    [is_component : {TRUE}, has_problem_meta : {TRUE}, has_model_ref : {TRUE},
     has_iter_count : {TRUE}, iter_count : IterCounts, pathname : Pathnames,
     rank : RankNumbers, reports_dir : ReportsDirs]
    \cup {[c EXCEPT !.has_problem_meta = m[1], !.has_model_ref = m[2], !.has_iter_count = m[3]] :
            c \in [is_component : {TRUE}, has_problem_meta : {TRUE}, has_model_ref : {TRUE},
                   has_iter_count : {TRUE}, iter_count : {MaxIter}, pathname : Pathnames,
                   rank : RankNumbers, reports_dir : ReportsDirs],
            m \in {<<FALSE, FALSE, FALSE>>, <<TRUE, FALSE, FALSE>>, <<TRUE, TRUE, FALSE>>,
                   <<TRUE, FALSE, TRUE>>}}
    \cup {NoComponent}

LogDirOf(c) == Absolute(Parent(LogfilePath(c, extract_iter(c), StdoutWord)))

Junk(d) == d \o <<<<"o", "l", "d">>>>

\* What can be on disk before a call: nothing, the log directory (empty, or
\* with a file and a subdirectory with a file in it), a file in its place.
DiskBefore(d) ==
    {[dirs |-> {}, files |-> EmptyFiles],
     [dirs |-> MkdirDirs({}, d), files |-> EmptyFiles],
     [dirs |-> MkdirDirs({}, Junk(d)),
      files |-> (d \o <<<<"x">>>>) :> <<0>> @@ (Junk(d) \o <<<<"y">>>>) :> <<0>>],
     [dirs |-> MkdirDirs({}, Parent(d)), files |-> d :> <<0>>]}

PathInit ==
    /\ EvalQuiet
    /\ WrapQuiet
    /\ component \in Components
    /\ iter_arg \in {None, Some(7)}
    /\ iter_local = None
    /\ log_paths = NoPaths
    /\ \E disk \in DiskBefore(LogDirOf(component)) :
          fs_dirs = disk.dirs /\ fs_files = disk.files

PathNext == name_create_log

SpecPath == PathInit /\ [][PathNext]_vars

\* ------------------------------------------- component_log_capture.wrapper
\* Each rank is a process of its own, with its own sys.stdout and sys.stderr;
\* the ranks share the file system.

\* Line 130: the wrapper is entered with self = c.
WrapperCall(r, c) ==
    /\ pc[r] = "idle"
    /\ self' = [self EXCEPT ![r] = c]
    /\ pc' = [pc EXCEPT ![r] = "name_create_log"]
    /\ before' = [before EXCEPT ![r] = [out |-> sys_stdout[r], err |-> sys_stderr[r]]]
    /\ func_result' = [func_result EXCEPT ![r] = "none"]
    /\ outcome' = [outcome EXCEPT ![r] = "none"]
    /\ printed' = [printed EXCEPT ![r] = [out |-> 0, err |-> 0]]
    /\ path_log' = [path_log EXCEPT ![r] = NoPaths]
    /\ stdout_file' = [stdout_file EXCEPT ![r] = NoFile]
    /\ stderr_file' = [stderr_file EXCEPT ![r] = NoFile]
    /\ UNCHANGED <<sys_stdout, sys_stderr, old_stdout, old_stderr, fsVars, pathVars, evalVars>>

\* The wrapper ends by raising exc to its caller.
Propagate(r, exc) ==
    /\ pc' = [pc EXCEPT ![r] = "idle"]
    /\ outcome' = [outcome EXCEPT ![r] = exc]

LogDir(r) == Absolute(Parent(path_log[r].stdout))

\* Lines 70-98 of name_create_log: the type check, the two paths, the first
\* mkdir.
NameCreateLogMkdir(r) ==
    /\ pc[r] = "name_create_log"
    /\ UNCHANGED <<self, sys_stdout, sys_stderr, old_stdout, old_stderr, stdout_file,
                   stderr_file, func_result, printed, before, fs_files, pathVars, evalVars>>
    /\ IF ~self[r].is_component
       THEN Propagate(r, "TypeError") /\ UNCHANGED <<path_log, fs_dirs>>
       ELSE IF ~self[r].has_problem_meta
       THEN Propagate(r, "AttributeError") /\ UNCHANGED <<path_log, fs_dirs>>
       ELSE LET iter == LocalIter(self[r], None)
                out == LogfilePath(self[r], iter, StdoutWord)
                err == LogfilePath(self[r], iter, StderrWord)
                dir == Absolute(Parent(out))
                failure == MkdirError(fs_dirs, fs_files, dir, FALSE)
            IN /\ path_log' = [path_log EXCEPT ![r] =
                                  [status |-> IF failure = "ok" THEN "created" ELSE "pending",
                                   stdout |-> Absolute(out), stderr |-> Absolute(err)]]
               /\ IF failure = "ok"
                  THEN /\ fs_dirs' = MkdirDirs(fs_dirs, dir)
                       /\ pc' = [pc EXCEPT ![r] = "open_stdout"]
                       /\ UNCHANGED outcome
                  ELSE IF failure = "FileExistsError"
                  THEN /\ pc' = [pc EXCEPT ![r] = "rmtree"]
                       /\ UNCHANGED <<fs_dirs, outcome>>
                  ELSE Propagate(r, failure) /\ UNCHANGED fs_dirs

Detach(file, dir) ==
    IF file.state = "open" /\ IsPrefix(dir, file.path) /\ dir \in fs_dirs
    THEN [file EXCEPT !.attached = FALSE]
    ELSE file

\* Line 100: shutil.rmtree(directory, ignore_errors=True).  A file that is
\* open elsewhere is unlinked all the same; its file object then writes to a
\* file that no path leads to.
NameCreateLogRmtree(r) ==
    /\ pc[r] = "rmtree"
    /\ fs_dirs' = RmtreeDirs(fs_dirs, LogDir(r))
    /\ fs_files' = RmtreeFiles(fs_dirs, fs_files, LogDir(r))
    /\ stdout_file' = [q \in Ranks |-> Detach(stdout_file[q], LogDir(r))]
    /\ stderr_file' = [q \in Ranks |-> Detach(stderr_file[q], LogDir(r))]
    /\ pc' = [pc EXCEPT ![r] = "mkdir_again"]
    /\ UNCHANGED <<self, sys_stdout, sys_stderr, old_stdout, old_stderr, path_log,
                   func_result, outcome, printed, before, pathVars, evalVars>>

\* Line 101: mkdir(parents=True, exist_ok=True), then the return of line 104.
NameCreateLogMkdirAgain(r) ==
    /\ pc[r] = "mkdir_again"
    /\ LET failure == MkdirError(fs_dirs, fs_files, LogDir(r), TRUE)
       IN IF failure = "ok"
          THEN /\ fs_dirs' = MkdirDirs(fs_dirs, LogDir(r))
               /\ pc' = [pc EXCEPT ![r] = "open_stdout"]
               /\ path_log' = [path_log EXCEPT ![r].status = "recreated"]
               /\ UNCHANGED outcome
          ELSE Propagate(r, failure) /\ UNCHANGED <<fs_dirs, path_log>>
    /\ UNCHANGED <<self, sys_stdout, sys_stderr, old_stdout, old_stderr,
                   stdout_file, stderr_file, func_result, printed, before, fs_files,
                   pathVars, evalVars>>

\* open(path, "a"): the exception it raises, or "ok".
OpenError(path) ==
    IF Parent(path) \notin fs_dirs THEN "FileNotFoundError"
    ELSE IF path \in fs_dirs THEN "IsADirectoryError"
    ELSE "ok"

OpenFiles(path) == IF path \in DOMAIN fs_files THEN fs_files ELSE path :> <<>> @@ fs_files

\* Line 135: open(path_stdout_log, "a") as stdout_file.
OpenStdout(r) ==
    /\ pc[r] = "open_stdout"
    /\ IF OpenError(path_log[r].stdout) = "ok"
       THEN /\ fs_files' = OpenFiles(path_log[r].stdout)
            /\ stdout_file' = [stdout_file EXCEPT ![r] =
                   [path |-> path_log[r].stdout, state |-> "open", attached |-> TRUE]]
            /\ pc' = [pc EXCEPT ![r] = "open_stderr"]
            /\ UNCHANGED outcome
       ELSE /\ Propagate(r, OpenError(path_log[r].stdout))
            /\ UNCHANGED <<fs_files, stdout_file>>
    /\ UNCHANGED <<self, sys_stdout, sys_stderr, old_stdout, old_stderr, path_log,
                   stderr_file, func_result, printed, before, fs_dirs, pathVars, evalVars>>

\* Line 136: open(path_stderr_log, "a") as stderr_file; when it raises, the
\* with statement closes stdout_file on the way out.
OpenStderr(r) ==
    /\ pc[r] = "open_stderr"
    /\ IF OpenError(path_log[r].stderr) = "ok"
       THEN /\ fs_files' = OpenFiles(path_log[r].stderr)
            /\ stderr_file' = [stderr_file EXCEPT ![r] =
                   [path |-> path_log[r].stderr, state |-> "open", attached |-> TRUE]]
            /\ pc' = [pc EXCEPT ![r] = "redirect_stdout"]
            /\ UNCHANGED <<outcome, stdout_file>>
       ELSE /\ Propagate(r, OpenError(path_log[r].stderr))
            /\ stdout_file' = [stdout_file EXCEPT ![r].state = "closed"]
            /\ UNCHANGED <<fs_files, stderr_file>>
    /\ UNCHANGED <<self, sys_stdout, sys_stderr, old_stdout, old_stderr, path_log,
                   func_result, printed, before, fs_dirs, pathVars, evalVars>>

\* Line 137: redirect_stdout(stdout_file).__enter__
RedirectStdout(r) ==
    /\ pc[r] = "redirect_stdout"
    /\ old_stdout' = [old_stdout EXCEPT ![r] = sys_stdout[r]]
    /\ sys_stdout' = [sys_stdout EXCEPT ![r] = "stdout_file"]
    /\ pc' = [pc EXCEPT ![r] = "redirect_stderr"]
    /\ UNCHANGED <<self, sys_stderr, old_stderr, path_log, stdout_file, stderr_file,
                   func_result, outcome, printed, before, fsVars, pathVars, evalVars>>

\* Line 138: redirect_stderr(stderr_file).__enter__
RedirectStderr(r) ==
    /\ pc[r] = "redirect_stderr"
    /\ old_stderr' = [old_stderr EXCEPT ![r] = sys_stderr[r]]
    /\ sys_stderr' = [sys_stderr EXCEPT ![r] = "stderr_file"]
    /\ pc' = [pc EXCEPT ![r] = "compute_func"]
    /\ UNCHANGED <<self, sys_stdout, old_stdout, path_log, stdout_file, stderr_file,
                   func_result, outcome, printed, before, fsVars, pathVars, evalVars>>

\* A write through a file object reaches the file its path names only while
\* the file object is attached to it.
WriteTo(target, r) ==
    LET file == IF target = "stdout_file" THEN stdout_file[r] ELSE stderr_file[r]
    IN IF target \in {"stdout_file", "stderr_file"} /\ file.state = "open" /\ file.attached
       THEN [fs_files EXCEPT ![file.path] = Append(@, r)]
       ELSE fs_files

\* Line 140, inside compute_func: print(...)
PrintStdout(r) ==
    /\ pc[r] = "compute_func"
    /\ printed[r].out < MaxPrints
    /\ printed' = [printed EXCEPT ![r].out = @ + 1]
    /\ fs_files' = WriteTo(sys_stdout[r], r)
    /\ UNCHANGED <<self, pc, sys_stdout, sys_stderr, old_stdout, old_stderr, path_log,
                   stdout_file, stderr_file, func_result, outcome, before, fs_dirs,
                   pathVars, evalVars>>

\* Line 140, inside compute_func: print(..., file=sys.stderr)
PrintStderr(r) ==
    /\ pc[r] = "compute_func"
    /\ printed[r].err < MaxPrints
    /\ printed' = [printed EXCEPT ![r].err = @ + 1]
    /\ fs_files' = WriteTo(sys_stderr[r], r)
    /\ UNCHANGED <<self, pc, sys_stdout, sys_stderr, old_stdout, old_stderr, path_log,
                   stdout_file, stderr_file, func_result, outcome, before, fs_dirs,
                   pathVars, evalVars>>

\* Line 140: compute_func returns, or raises.
ComputeFuncEnds(r, how) ==
    /\ pc[r] = "compute_func"
    /\ func_result' = [func_result EXCEPT ![r] = how]
    /\ pc' = [pc EXCEPT ![r] = "restore_stderr"]
    /\ UNCHANGED <<self, sys_stdout, sys_stderr, old_stdout, old_stderr, path_log,
                   stdout_file, stderr_file, outcome, printed, before, fsVars,
                   pathVars, evalVars>>

\* An exit that puts the stream back only when compute_func returned.
RestoredMut(how, saved, current) == IF how = "returned" THEN saved ELSE current

\* redirect_stdout.__exit__ / redirect_stderr.__exit__: the saved target is
\* put back, however the block ended.
Restored(how, saved, current) == saved

\* Leaving the with statement: redirect_stderr.__exit__
RestoreStderr(r) ==
    /\ pc[r] = "restore_stderr"
    /\ sys_stderr' = [sys_stderr EXCEPT ![r] = Restored(func_result[r], old_stderr[r], @)]
    /\ pc' = [pc EXCEPT ![r] = "restore_stdout"]
    /\ UNCHANGED <<self, sys_stdout, old_stdout, old_stderr, path_log, stdout_file,
                   stderr_file, func_result, outcome, printed, before, fsVars, pathVars,
                   evalVars>>

\* Leaving the with statement: redirect_stdout.__exit__
RestoreStdout(r) ==
    /\ pc[r] = "restore_stdout"
    /\ sys_stdout' = [sys_stdout EXCEPT ![r] = Restored(func_result[r], old_stdout[r], @)]
    /\ pc' = [pc EXCEPT ![r] = "close_stderr"]
    /\ UNCHANGED <<self, sys_stderr, old_stdout, old_stderr, path_log, stdout_file,
                   stderr_file, func_result, outcome, printed, before, fsVars, pathVars,
                   evalVars>>

\* Leaving the with statement: stderr_file.close()
CloseStderr(r) ==
    /\ pc[r] = "close_stderr"
    /\ stderr_file' = [stderr_file EXCEPT ![r].state = "closed"]
    /\ pc' = [pc EXCEPT ![r] = "close_stdout"]
    /\ UNCHANGED <<self, sys_stdout, sys_stderr, old_stdout, old_stderr, path_log,
                   stdout_file, func_result, outcome, printed, before, fsVars, pathVars,
                   evalVars>>

\* Leaving the with statement: stdout_file.close(); then lines 140-142, the
\* wrapper returns what compute_func returned or re-raises what it raised.
CloseStdout(r) ==
    /\ pc[r] = "close_stdout"
    /\ stdout_file' = [stdout_file EXCEPT ![r].state = "closed"]
    /\ Propagate(r, func_result[r])
    /\ UNCHANGED <<self, sys_stdout, sys_stderr, old_stdout, old_stderr, path_log,
                   stderr_file, func_result, printed, before, fsVars, pathVars, evalVars>>

\* ------------------------------------------------ one process, many calls
RunReports == <<Root, <<"r", "u", "n">>, <<"o", "u", "t">>, <<"r", "e", "p", "o", "r", "t", "s">>>>

Solver == [is_component |-> TRUE, has_problem_meta |-> TRUE, has_model_ref |-> TRUE,
           has_iter_count |-> TRUE, iter_count |-> 0, pathname |-> <<"a", ".", "b">>,
           rank |-> 0, reports_dir |-> RunReports]

\* What a wrapped method can be called on: the component, the component
\* under a model without an iteration count, and an object that is no
\* component.
Callees ==
    {Solver, [Solver EXCEPT !.has_iter_count = FALSE], NoComponent}

FuncEnds == {"returned", "ValueError", "KeyboardInterrupt"}

StreamPairs == {[out |-> "console", err |-> "console_err"],
                [out |-> "pipe", err |-> "console_err"]}

LogInit ==
    /\ EvalQuiet
    /\ PathQuiet
    /\ WrapQuiet
    /\ \E disk \in DiskBefore(LogDirOf(Solver)) :
          fs_dirs = disk.dirs /\ fs_files = disk.files

\* Outside a wrapped call the process may point its streams elsewhere.
Repoint(r) ==
    /\ \A q \in Ranks : pc[q] = "idle"
    /\ \E s \in StreamPairs :
          /\ sys_stdout' = [sys_stdout EXCEPT ![r] = s.out]
          /\ sys_stderr' = [sys_stderr EXCEPT ![r] = s.err]
    /\ UNCHANGED <<self, pc, old_stdout, old_stderr, path_log, stdout_file, stderr_file,
                   func_result, outcome, printed, before, fsVars, pathVars, evalVars>>

\* Calls follow one another: a wrapped method is entered when no other runs.
SoloCall(r, c) == (\A q \in Ranks : pc[q] = "idle") /\ WrapperCall(r, c)

WrapperStep(r) ==
    \/ NameCreateLogMkdir(r)
    \/ NameCreateLogRmtree(r)
    \/ NameCreateLogMkdirAgain(r)
    \/ OpenStdout(r)
    \/ OpenStderr(r)
    \/ RedirectStdout(r)
    \/ RedirectStderr(r)
    \/ PrintStdout(r)
    \/ PrintStderr(r)
    \/ \E how \in FuncEnds : ComputeFuncEnds(r, how)
    \/ RestoreStderr(r)
    \/ RestoreStdout(r)
    \/ CloseStderr(r)
    \/ CloseStdout(r)

\* The process is rank 0 of its communicator.
LogNext ==
    \/ \E c \in Callees : SoloCall(0, c)
    \/ Repoint(0)
    \/ WrapperStep(0)

SpecLog == LogInit /\ [][LogNext]_vars

\* ------------------------------------- the ranks of one component, at once
RankInit ==
    /\ EvalQuiet
    /\ PathQuiet
    /\ WrapQuiet
    /\ \E disk \in {d \in DiskBefore(LogDirOf(Solver)) : d.files = EmptyFiles} :
          fs_dirs = disk.dirs /\ fs_files = disk.files

\* Every rank runs the wrapped method once, in the same iteration.
RankCall(r) == self[r] = NoComponent /\ WrapperCall(r, [Solver EXCEPT !.rank = r])

RankNext ==
    \E r \in Ranks :
        \/ RankCall(r)
        \/ WrapperStep(r)

SpecRanks == RankInit /\ [][RankNext]_vars

\* ------------------------------------------------- the component's callers
\* Turbine coordinates, inside the map's domain.
Coords == {1, 2}

\* Presence-density maps a user can supply: samples of each field on the
\* 4 x 4 grid, and malformed maps.
GoodMaps == {[x |-> GoodAxis, y |-> GoodAxis, z |-> Sample(f, GoodAxis, GoodAxis)] : f \in Fields}

RampField == [a |-> 1, b |-> 1, c |-> 0]

BadAxes == {<<0, 2, 1, 3>>, <<0, 1, 1, 3>>, <<3, 2, 1, 0>>, <<0>>, <<>>}

BadMaps ==
    {[x |-> ax, y |-> GoodAxis, z |-> Sample(RampField, ax, GoodAxis)] : ax \in BadAxes}
    \cup {[x |-> GoodAxis, y |-> ax, z |-> Sample(RampField, GoodAxis, ax)] : ax \in BadAxes}
    \cup {[x |-> GoodAxis, y |-> GoodAxis, z |-> Sample(RampField, <<0, 1, 2>>, GoodAxis)],
          [x |-> GoodAxis, y |-> GoodAxis, z |-> Sample(RampField, GoodAxis, <<0, 1, 2>>)],
          [x |-> GoodAxis, y |-> GoodAxis, z |-> Sample(RampField, <<0, 1, 2, 3, 4>>, GoodAxis)]}

EvalInit ==
    /\ pres \in GoodMaps \cup BadMaps
    /\ N_turbines \in 1..MaxN
    /\ eagle_density_function = NoSpline
    /\ setup_state = "new"
    /\ outputs = NoArray
    /\ partials = NoPartials
    /\ last = [op |-> "init", x |-> <<>>, y |-> <<>>]
    /\ raised = Null
    /\ memo = NoMemo
    /\ LogQuiet

\* The framework hands compute and compute_partials arrays of the declared
\* length N_turbines.
Compute == \E x, y \in SeqOf(Coords, N_turbines) : compute(x, y)

ComputePartials == \E x, y \in SeqOf(Coords, N_turbines) : compute_partials(x, y)

EvalNext == setup \/ Compute \/ ComputePartials

Spec == EvalInit /\ [][EvalNext]_vars

\* A caller that invokes the two methods directly with arrays of any length.
MaxLen == 3

AnyBatch == {[i \in 1..n |-> c] : n \in 0..MaxLen, c \in Coords}

ComputeAny == \E x, y \in AnyBatch : compute(x, y)

ComputePartialsAny == \E x, y \in AnyBatch : compute_partials(x, y)

ShapeInit == EvalInit /\ pres \in GoodMaps /\ pres.z[2][2] >= 2

ShapeNext == setup \/ ComputeAny \/ ComputePartialsAny

SpecShape == ShapeInit /\ [][ShapeNext]_vars

\* ------------------------------------------------------ claims C1 .. C5
ValidCall == last.op \in {"compute", "compute_partials"}
             /\ Len(last.x) = N_turbines /\ Len(last.y) = N_turbines

IsDiagonalOf(m, dx, dy) ==
    /\ DOMAIN m = 1..N_turbines
    /\ \A i \in 1..N_turbines :
         /\ DOMAIN m[i] = 1..N_turbines
         /\ \A j \in 1..N_turbines :
              m[i][j] = IF i = j THEN Evaluate(Spline, last.x[i], last.y[i], dx, dy) ELSE 0

\* C1: for every batch of the configured length N (N = 1 included), compute
\* leaves a density output of exactly N entries and compute_partials leaves
\* two N x N blocks whose entry [i][i] is the interpolant's first partial
\* derivative at (x[i], y[i]) along the block's axis and whose entries [i][j],
\* i # j, are zero.
C1_LengthAndDiagonalJacobian ==
    (setup_state = "ready" /\ ValidCall) =>
        /\ raised = Null
        /\ last.op = "compute" => DOMAIN outputs = 1..N_turbines
        /\ last.op = "compute_partials" =>
              /\ IsDiagonalOf(partials.dx, 1, 0)
              /\ IsDiagonalOf(partials.dy, 0, 1)

C1_Witness ==
    /\ setup_state = "ready" /\ last.op = "compute_partials" /\ N_turbines = MaxN
    /\ partials.dx[1][1] # 0 /\ partials.dy[1][1] # 0
    /\ partials.dx[1][1] # partials.dx[MaxN][MaxN]

\* C2: batch evaluation is pointwise: after compute, density[i] is the
\* single-point value of the interpolant at (x[i], y[i]), whatever the other
\* points of the batch are; a batch of one point gives that point's value.
C2_Pointwise ==
    (setup_state = "ready" /\ last.op = "compute" /\ ValidCall) =>
        \A i \in 1..N_turbines :
            outputs[i] = Poly(Spline, last.x[i], last.y[i])

C2_Witness ==
    /\ setup_state = "ready" /\ last.op = "compute" /\ N_turbines = MaxN
    /\ last.y[1] # last.y[MaxN]
    /\ outputs[1] # outputs[MaxN]

\* C3: a call whose x and y differ in length, or whose length is not N,
\* raises and writes neither the density array nor a Jacobian block.
MismatchedCall(l) ==
    /\ l.op \in {"compute", "compute_partials"}
    /\ Len(l.x) # Len(l.y) \/ Len(l.x) # N_turbines

C3_MismatchRaisesAndWritesNothing ==
    [][(setup_state = "ready" /\ MismatchedCall(last')) =>
          (raised' # Null /\ outputs' = outputs /\ partials' = partials)]_vars

\* C4: setup raises whenever the map is malformed (an axis not strictly
\* increasing or with duplicates, an axis shorter than 2, values not of shape
\* len(x) by len(y)); afterwards there is no interpolant, no declared output
\* or Jacobian, and no call that evaluates.
Malformed(m) ==
    \/ ~StrictlyIncreasing(m.x)
    \/ ~StrictlyIncreasing(m.y)
    \/ Len(m.x) < 2
    \/ Len(m.y) < 2
    \/ Shape(m.z) # <<Len(m.x), Len(m.y)>>

C4_MalformedGridFailsSetup ==
    (Malformed(pres) /\ setup_state # "new") =>
        /\ setup_state = "failed"
        /\ last.op = "setup" => raised = "ValueError"
        /\ eagle_density_function = NoSpline
        /\ outputs = NoArray
        /\ partials = NoPartials
        /\ last.op \in {"compute", "compute_partials"} => raised = "AttributeError"

C4_Witness ==
    /\ pres.x = <<0, 2, 1, 3>>
    /\ setup_state = "failed"
    /\ last.op = "compute"
    /\ raised = "AttributeError"

\* C5: after setup, no call changes the fitted interpolant, the map or N, and
\* a call's result depends on its batch alone: the probe batch evaluated
\* again, after any other calls, gives the density and the Jacobian blocks it
\* gave the first time.
C5_Stateless ==
    [][setup_state = "ready" =>
          /\ UNCHANGED <<pres, N_turbines, eagle_density_function, setup_state>>
          /\ (last'.op = "compute" /\ IsProbe(last'.x, last'.y)) =>
                 outputs' = memo'.density
          /\ (last'.op = "compute_partials" /\ IsProbe(last'.x, last'.y)) =>
                 partials' = memo'.jac]_vars

C5_Witness ==
    /\ setup_state = "ready"
    /\ last.op = "compute" /\ IsProbe(last.x, last.y)
    /\ memo.density = outputs /\ memo.jac # NoPartials
    /\ partials # memo.jac
    /\ \E i \in 1..N_turbines : outputs[i] # 0

\* ------------------------------------------------------ claims C6 .. C10
Redirected(r) ==
    /\ sys_stdout[r] = "stdout_file" /\ stdout_file[r].state = "open"
    /\ stdout_file[r].path = path_log[r].stdout
    /\ sys_stderr[r] = "stderr_file" /\ stderr_file[r].state = "open"
    /\ stderr_file[r].path = path_log[r].stderr

AsBefore(r) == sys_stdout[r] = before[r].out /\ sys_stderr[r] = before[r].err

\* C6: sys.stdout and sys.stderr refer to the component's two logfiles while
\* compute_func runs and to what they referred to before the call until the
\* redirection is entered; when the wrapper returns or raises, both streams
\* are what they were before the call, neither logfile is open, and the
\* wrapper ends the way compute_func ended, its exception included.
C6_RedirectedOnlyWhileRunning ==
    [][\A r \in Ranks :
          /\ pc'[r] = "compute_func" => Redirected(r)'
          /\ pc'[r] \in {"name_create_log", "rmtree", "mkdir_again", "open_stdout",
                         "open_stderr", "redirect_stdout"} => AsBefore(r)'
          /\ (pc[r] # "idle" /\ pc'[r] = "idle") =>
                /\ AsBefore(r)'
                /\ stdout_file'[r].state # "open"
                /\ stderr_file'[r].state # "open"
                /\ func_result[r] # "none" => outcome'[r] = func_result[r]]_vars

C6_Witness ==
    /\ pc[0] = "idle" /\ func_result[0] = "ValueError" /\ outcome[0] = "ValueError"
    /\ before[0].out = "pipe" /\ sys_stdout[0] = "pipe" /\ sys_stderr[0] = "console_err"
    /\ stdout_file[0].state = "closed" /\ stderr_file[0].state = "closed"
    /\ printed[0] = [out |-> 1, err |-> 1]

DigitValue(ch) == CHOOSE k \in 0..9 : DigitChar[k + 1] = ch

RECURSIVE NumberOf(_)
NumberOf(digits) ==
    IF Len(digits) = 0 THEN 0
    ELSE 10 * NumberOf(SubSeq(digits, 1, Len(digits) - 1)) + DigitValue(digits[Len(digits)])

\* digits is n in decimal, with zeros in front up to the width and no more.
IsZeroPadded(digits, n, width) ==
    /\ Len(digits) >= width
    /\ \A i \in 1..Len(digits) : \E k \in 1..10 : DigitChar[k] = digits[i]
    /\ NumberOf(digits) = n
    /\ Len(digits) > width => digits[1] # "0"

RECURSIVE JoinWith(_, _)
JoinWith(parts, sep) ==
    IF Len(parts) = 0 THEN <<>>
    ELSE IF Len(parts) = 1 THEN parts[1]
    ELSE parts[1] \o <<sep>> \o JoinWith(Tail(parts), sep)

\* path is <base>/logs/iter_<iteration>/<the pathname's parts>/<word>_rank<rank>.txt
IsLogfileOf(path, c, word) ==
    LET base == Absolute(Parent(c.reports_dir))
        n == Len(base)
        name == path[Len(path)]
        head == word \o <<"_", "r", "a", "n", "k">>
    IN /\ Len(path) >= n + 3
       /\ SubSeq(path, 1, n) = base
       /\ path[n + 1] = <<"l", "o", "g", "s">>
       /\ SubSeq(path[n + 2], 1, 5) = <<"i", "t", "e", "r", "_">>
       /\ IsZeroPadded(SubSeq(path[n + 2], 6, Len(path[n + 2])), c.iter_count, 4)
       /\ JoinWith(SubSeq(path, n + 3, Len(path) - 1), ".") = c.pathname
       /\ \A k \in (n + 3)..(Len(path) - 1) : path[k] # <<>> /\ "." \notin {path[k][i] : i \in 1..Len(path[k])}
       /\ SubSeq(name, 1, Len(head)) = head
       /\ SubSeq(name, Len(name) - 3, Len(name)) = <<".", "t", "x", "t">>
       /\ IsZeroPadded(SubSeq(name, Len(head) + 1, Len(name) - 4), c.rank, 3)

C8_LogDirectoryFresh ==
    \A r \in Ranks :
        pc[r] = "open_stdout" =>
            /\ LogDir(r) \in fs_dirs
            /\ Contents(fs_dirs, fs_files, LogDir(r)) = {}

C8_Witness ==
    /\ pc[0] = "open_stdout"
    /\ path_log[0].status = "recreated"
    /\ self[0].has_iter_count
    /\ \E f \in DOMAIN fs_files : Len(fs_files[f]) = 1 /\ f[Len(f)] = path_log[0].stdout[Len(path_log[0].stdout)]

HasIterSegment(path) ==
    \E k \in 1..(Len(path) - 1) :
        /\ path[k] = <<"l", "o", "g", "s">>
        /\ IsPrefix(<<"i", "t", "e", "r", "_">>, path[k + 1])

AllRanksDone == \A r \in Ranks : self[r] # NoComponent /\ pc[r] = "idle"

KeepsLog(r, path, count) ==
    /\ path \in DOMAIN fs_files
    /\ Len(fs_files[path]) = count
    /\ \A i \in 1..Len(fs_files[path]) : fs_files[path][i] = r

C10_EveryRankKeepsItsLogs ==
    AllRanksDone =>
        \A r \in Ranks :
            /\ func_result[r] # "none"
            /\ KeepsLog(r, path_log[r].stdout, printed[r].out)
            /\ KeepsLog(r, path_log[r].stderr, printed[r].err)
====
